---- MODULE Spec2Model ----
(***************************************************************************)
(* Model of cloud_function_source/main.py: the event-driven function       *)
(* process_gcs_csv_to_bq, which reads a CSV object from a bucket, cleans   *)
(* it with pandas and appends the result to a BigQuery table.              *)
(*                                                                         *)
(* Text is a sequence of one-character strings, so that lower(), upper(),  *)
(* endswith() and the numeric / timestamp parsers are computed character   *)
(* by character.  A CSV object is a sequence of lines, a line a sequence   *)
(* of cells.  Time is counted in months (the resolution of the timestamp   *)
(* syntax "YYYY-MM" the inputs use).                                       *)
(***************************************************************************)
EXTENDS Integers, Sequences, FiniteSets, TLC

\* ------------------------------------------------------------------ bounds
MaxInvocations == 2
MaxTicks == 2

\* ------------------------------------------------------------- text helpers
LowerAlpha == <<"a","b","c","d","e","f","g","h","i","j","k","l","m",
                "n","o","p","q","r","s","t","u","v","w","x","y","z">>
UpperAlpha == <<"A","B","C","D","E","F","G","H","I","J","K","L","M",
                "N","O","P","Q","R","S","T","U","V","W","X","Y","Z">>
Digits == <<"0","1","2","3","4","5","6","7","8","9">>

Range(s) == {s[i] : i \in DOMAIN s}

IndexOf(s, x) == CHOOSE i \in DOMAIN s : s[i] = x

LowerChar(c) == IF c \in Range(UpperAlpha) THEN LowerAlpha[IndexOf(UpperAlpha, c)] ELSE c

UpperChar(c) == IF c \in Range(LowerAlpha) THEN UpperAlpha[IndexOf(LowerAlpha, c)] ELSE c

\* str.lower()
Lower(s) == [i \in DOMAIN s |-> LowerChar(s[i])]

\* str.upper()
Upper(s) == [i \in DOMAIN s |-> UpperChar(s[i])]

\* str.endswith(suffix)
EndsWith(s, suffix) ==
    /\ Len(s) >= Len(suffix)
    /\ SubSeq(s, Len(s) - Len(suffix) + 1, Len(s)) = suffix

IsDigit(c) == c \in Range(Digits)

DigitVal(c) == IndexOf(Digits, c) - 1

RECURSIVE DigitsToNat(_)
DigitsToNat(s) ==
    IF Len(s) = 0 THEN 0
    ELSE 10 * DigitsToNat(SubSeq(s, 1, Len(s) - 1)) + DigitVal(s[Len(s)])

RECURSIVE Pow10(_)
Pow10(n) == IF n = 0 THEN 1 ELSE 10 * Pow10(n - 1)

\* ------------------------------------------------------- missing-value marks
\* pandas NaN in an object (text) column; no cell text equals it, since cell
\* text is made of one-character strings.
NaN == <<"NaN">>

\* pandas NaT in a datetime column
NaT == [na |-> TRUE, t |-> 0, tz |-> "UTC"]

\* pandas NaN in a float column
NaNum == [na |-> TRUE, num |-> 0, den |-> 1]

\* ------------------------------------------------------------ configuration
\* the extension of line 42
CsvExtension == <<".","c","s","v">>

\* variant of IsCsvName: the comparison without lower()
IsCsvNameCaseSensitive(file_name) == EndsWith(file_name, CsvExtension)

\* line 42: file_name.lower().endswith('.csv')
IsCsvName(file_name) == EndsWith(Lower(file_name), CsvExtension)

\* the threshold of line 123
HighValueThreshold == 100

\* the key set of country_mapping, lines 112-117
MALAYSIA == <<"M","A","L","A","Y","S","I","A">>
SINGAPORE == <<"S","I","N","G","A","P","O","R","E">>
THAILAND == <<"T","H","A","I","L","A","N","D">>
INDONESIA == <<"I","N","D","O","N","E","S","I","A">>

\* the final column list of line 134
FinalColumns == <<"user_id", "event_timestamp", "country_code", "value",
                  "is_high_value", "processing_datetime">>

\* ------------------------------------------------------------------ pandas
\* the default NA strings of read_csv that the inputs use: "" and "NA"
NaStrings == { <<>>, <<"N","A">> }

\* variant of ReadCsv: empty text gives an empty frame instead of an error
ReadCsvEmptyFrame(content) ==
    IF Len(content) = 0
    THEN [err |-> "none",
          columns |-> <<"user_id", "event_timestamp", "country", "value">>,
          rows |-> <<>>]
    ELSE IF \E i \in 2..Len(content) : Len(content[i]) > Len(content[1])
    THEN [err |-> "ParserError", columns |-> <<>>, rows |-> <<>>]
    ELSE [err |-> "none",
          columns |-> content[1],
          rows |-> [i \in 1..(Len(content) - 1) |->
                      [c \in Range(content[1]) |->
                         LET k == IndexOf(content[1], c)
                             line == content[i + 1]
                         IN IF k > Len(line) \/ line[k] \in NaStrings
                            THEN NaN ELSE line[k]]]]

\* pd.read_csv(io.StringIO(text)): the first line names the columns; a cell
\* that is absent (short line) or an NA string is NaN; no columns at all is
\* EmptyDataError, a line longer than the header is ParserError.
ReadCsv(content) ==
    IF Len(content) = 0
    THEN [err |-> "EmptyDataError", columns |-> <<>>, rows |-> <<>>]
    ELSE IF \E i \in 2..Len(content) : Len(content[i]) > Len(content[1])
    THEN [err |-> "ParserError", columns |-> <<>>, rows |-> <<>>]
    ELSE [err |-> "none",
          columns |-> content[1],
          rows |-> [i \in 1..(Len(content) - 1) |->
                      [c \in Range(content[1]) |->
                         LET k == IndexOf(content[1], c)
                             line == content[i + 1]
                         IN IF k > Len(line) \/ line[k] \in NaStrings
                            THEN NaN ELSE line[k]]]]

\* 'name' in df.columns; df['name'] raises KeyError otherwise
HasColumn(d, name) == name \in Range(d.columns)

\* df.loc[:, 'name'] = series : replaces the column, or adds it at the end
WithColumn(d, name, series) ==
    [err |-> d.err,
     columns |-> IF HasColumn(d, name) THEN d.columns ELSE Append(d.columns, name),
     rows |-> [i \in DOMAIN d.rows |->
                 [c \in Range(d.columns) \cup {name} |->
                    IF c = name THEN series[i] ELSE d.rows[i][c]]]]

\* df[[...]] : projection on a column list, in the order of the list
Project(d, cols) ==
    [err |-> d.err,
     columns |-> cols,
     rows |-> [i \in DOMAIN d.rows |-> [c \in Range(cols) |-> d.rows[i][c]]]]

\* pd.to_datetime(cell, errors='coerce', utc=True) on the syntax YYYY-MM
ToDatetime(cell) ==
    IF /\ cell # NaN
       /\ Len(cell) = 7
       /\ \A i \in {1, 2, 3, 4, 6, 7} : IsDigit(cell[i])
       /\ cell[5] = "-"
       /\ DigitsToNat(SubSeq(cell, 6, 7)) \in 1..12
    THEN [na |-> FALSE,
          t |-> 12 * DigitsToNat(SubSeq(cell, 1, 4)) + DigitsToNat(SubSeq(cell, 6, 7)) - 1,
          tz |-> "UTC"]
    ELSE NaT

\* Series.fillna(value) on a datetime column
FillNaT(ts, value) == IF ts.na THEN value ELSE ts

\* Series.astype(str) on a text column: NaN becomes the text "nan"
AsStr(cell) == IF cell = NaN THEN <<"n","a","n">> ELSE cell

\* Series.map(country_mapping): NaN for a key that is not in the mapping
MapCountry(key) ==
    CASE key = MALAYSIA -> <<"M","Y">>
      [] key = SINGAPORE -> <<"S","G">>
      [] key = THAILAND -> <<"T","H">>
      [] key = INDONESIA -> <<"I","D">>
      [] OTHER -> NaN

\* Series.fillna('OT') on a text column
FillNaText(cell, value) == IF cell = NaN THEN value ELSE cell

\* variant of CountryCode: the lookup without str.upper()
CountryCodeNoUpper(cell) == FillNaText(MapCountry(AsStr(cell)), <<"O","T">>)

\* line 118: astype(str).str.upper().map(country_mapping).fillna('OT')
CountryCode(cell) == FillNaText(MapCountry(Upper(AsStr(cell))), <<"O","T">>)

\* a decimal literal: optional sign, digits, optional point and digits
IsDecimal(s) ==
    LET body == IF Len(s) > 0 /\ s[1] = "-" THEN Tail(s) ELSE s
        dots == {i \in DOMAIN body : body[i] = "."}
    IN /\ Cardinality(dots) <= 1
       /\ \A i \in DOMAIN body : IsDigit(body[i]) \/ body[i] = "."
       /\ \E i \in DOMAIN body : IsDigit(body[i])

\* pd.to_numeric(cell, errors='coerce'): the exact fraction num/den, or NaN
ToNumeric(cell) ==
    IF cell = NaN \/ ~IsDecimal(cell) THEN NaNum
    ELSE LET neg == cell[1] = "-"
             body == IF neg THEN Tail(cell) ELSE cell
             dot == IF "." \in Range(body) THEN IndexOf(body, ".") ELSE Len(body) + 1
             whole == SubSeq(body, 1, dot - 1)
             frac == SubSeq(body, dot + 1, Len(body))
             mag == DigitsToNat(whole \o frac)
         IN [na |-> FALSE, num |-> IF neg THEN 0 - mag ELSE mag, den |-> Pow10(Len(frac))]

\* variant of FillNaNum: the fill left out
FillNaNumMissing(v) == v

\* Series.fillna(0.0) on a float column
FillNaNum(v) == IF v.na THEN [na |-> FALSE, num |-> 0, den |-> 1] ELSE v

\* line 122: pd.to_numeric(df['value'], errors='coerce').fillna(0.0)
CoerceValue(cell) == FillNaNum(ToNumeric(cell))

\* variant of IsHighValue: >= in place of >
IsHighValueInclusive(v) == ~v.na /\ v.num >= HighValueThreshold * v.den

\* line 123: df['value'] > 100.0 (a comparison with NaN is False)
IsHighValue(v) == ~v.na /\ v.num > HighValueThreshold * v.den

\* ------------------------------------------------------------- object store
\* The objects of the bucket "b" for the runs explored: the store is not
\* written by the function, so it is the same in every state.
FileA ==
    << <<"user_id", "event_timestamp", "country", "value">>,
       <<<<"u","1">>, <<"b","a","d">>, <<"m","a","l","a","y","s","i","a">>, <<"1","5","0">>>>,
       <<<<"u","2">>, <<"2","0","2","4","-","0","1">>, <<"V","i","e","t","n","a","m">>, <<"a","b","c">>>>,
       <<<<>>, <<>>, <<>>, <<>>>>,
       <<<<"u","3">>, <<"2","0","2","4","-","1","3">>, <<"S","I","N","G","A","P","O","R","E">>, <<"1","0","0">>>> >>

FileB ==
    << <<"value", "country", "extra", "user_id", "event_timestamp">>,
       <<<<"1","0","0",".","5">>, <<"O","T">>, <<"x">>, <<"u","4">>, <<"2","0","2","3","-","1","2">>>>,
       <<<<"1","0","1">>, <<"T","h","a","i","l","a","n","d">>, <<"x">>, <<>>, <<"b","a","d">>>>,
       <<<<"9","9",".","9">>, <<"i","n","d","o","n","e","s","i","a">>>>,
       <<<<"-","5">>, <<"M","Y">>, <<"x">>, <<"u","5">>, <<"N","A">>>> >>

FileNoCountry ==
    << <<"user_id", "event_timestamp", "value">>,
       <<<<"u","6">>, <<"2","0","2","4","-","0","2">>, <<"7">>>> >>

FileNoUser ==
    << <<"event_timestamp", "country", "value">>,
       <<<<"2","0","2","4","-","0","3">>, <<"M","a","l","a","y","s","i","a">>, <<"8">>>> >>

FileLongLine ==
    << <<"user_id", "event_timestamp", "country", "value">>,
       <<<<"u","7">>, <<"2","0","2","4","-","0","4">>, <<"T","h","a","i","l","a","n","d">>, <<"9">>>>,
       <<<<"u","8">>, <<"2","0","2","4","-","0","5">>, <<"T","h","a","i","l","a","n","d">>, <<"9">>, <<"z">>>> >>

FileEmpty == <<>>

NameA == <<"a",".","c","s","v">>
NameB == <<"B",".","C","S","V">>
NameNoCountry == <<"k",".","c","s","v">>
NameNoUser == <<"u",".","c","s","v">>
NameLongLine == <<"p",".","c","s","v">>
NameEmptyFile == <<"e",".","c","s","v">>
NameNotes == <<"n",".","t","x","t">>
NameMissing == <<"m",".","c","s","v">>
NameBare == <<"c","s","v">>

StoredNames == {NameA, NameB, NameNoCountry, NameNoUser, NameLongLine, NameEmptyFile, NameNotes}

\* blob.exists(storage_client)
BlobExists(bucket_name, file_name) == bucket_name = "b" /\ file_name \in StoredNames

\* the text blob.download_as_text() returns
BlobText(file_name) ==
    CASE file_name = NameA -> FileA
      [] file_name = NameB -> FileB
      [] file_name = NameNoCountry -> FileNoCountry
      [] file_name = NameNoUser -> FileNoUser
      [] file_name = NameLongLine -> FileLongLine
      [] file_name = NameEmptyFile -> FileEmpty
      [] file_name = NameNotes -> FileA

\* the events delivered to the function: cloud_event.data["bucket"], ["name"]
Events ==
    [bucket : {"b"}, name : StoredNames \cup {NameMissing, NameBare, <<>>}]
      \cup [bucket : {""}, name : {NameA, NameNotes, <<>>}]

\* -------------------------------------------------------------------- state
VARIABLES
    pc,                    \* position of the running invocation, "idle" between invocations
    event,                 \* cloud_event.data of the current (or last) invocation
    outcome,               \* how the last invocation ended, "running" while one runs
    csv_data_string,       \* line 64
    df,                    \* line 87, updated in place by lines 97-128
    current_utc_for_fill,  \* line 101
    final_df,              \* line 134
    table,                 \* the rows of the BigQuery target table
    clock,                 \* the wall clock, in months
    invocations,           \* number of events delivered so far
    raw,                   \* history: df as read_csv returned it
    table0,                \* history: the table when the invocation began
    clock0,                \* history: the clock when the invocation began
    calls,                 \* history: store, clock and warehouse calls of the invocation
    committed,             \* history: the events whose load job completed
    succeeded              \* history: the events whose invocation ended in success

vars == <<pc, event, outcome, csv_data_string, df, current_utc_for_fill, final_df,
          table, clock, invocations, raw, table0, clock0, calls, committed, succeeded>>

EmptyFrame == [err |-> "none", columns |-> <<>>, rows |-> <<>>]

\* the instant the process starts at
StartInstant == <<"2","0","2","6","-","1","1">>

\* datetime.now(timezone.utc): timezone-aware
NowUtc(c) == [na |-> FALSE, t |-> c, tz |-> "UTC"]

\* datetime.utcnow(): naive
UtcNowNaive(c) == [na |-> FALSE, t |-> c, tz |-> "naive"]

\* pd.to_datetime(series, utc=True) on datetime values: converts to UTC
ToUtc(ts) == [ts EXCEPT !.tz = "UTC"]

\* variant of ProcessingColumn: the clock read again for each row
ProcessingColumnPerRow(d, now) == [i \in DOMAIN d.rows |-> [now EXCEPT !.t = now.t + i - 1]]

\* line 128: one clock reading, broadcast to every row
ProcessingColumn(d, now) == [i \in DOMAIN d.rows |-> now]

\* variant of LoadAppend: WRITE_TRUNCATE
LoadTruncate(rows_before, new_rows) == new_rows

\* variant of LoadAppend: rows whose user_id is already in the table are dropped
LoadDedup(rows_before, new_rows) ==
    LET IsNew(r) == \A i \in DOMAIN rows_before : rows_before[i].user_id # r.user_id
    IN rows_before \o SelectSeq(new_rows, IsNew)

\* WRITE_APPEND (line 164): the job adds the rows after the existing ones
LoadAppend(rows_before, new_rows) == rows_before \o new_rows

Init ==
    /\ pc = "idle"
    /\ event = [bucket |-> "", name |-> <<>>]
    /\ outcome = "none"
    /\ csv_data_string = <<>>
    /\ df = EmptyFrame
    /\ current_utc_for_fill = NaT
    /\ final_df = EmptyFrame
    /\ table = <<>>
    /\ clock = ToDatetime(StartInstant).t
    /\ invocations = 0
    /\ raw = EmptyFrame
    /\ table0 = <<>>
    /\ clock0 = ToDatetime(StartInstant).t
    /\ calls = <<>>
    /\ committed = <<>>
    /\ succeeded = <<>>

\* an exception leaves the function: the invocation ends in failure
Raise(err) ==
    /\ pc' = "idle"
    /\ outcome' = err

\* lines 23-44: the event arrives; the extension filter
Receive(ev) ==
    /\ pc = "idle"
    /\ invocations < MaxInvocations
    /\ invocations' = invocations + 1
    /\ event' = ev
    /\ csv_data_string' = <<>>
    /\ df' = EmptyFrame
    /\ raw' = EmptyFrame
    /\ current_utc_for_fill' = NaT
    /\ final_df' = EmptyFrame
    /\ table0' = table
    /\ clock0' = clock
    /\ calls' = <<>>
    /\ IF ~IsCsvName(ev.name)
       THEN /\ pc' = "idle"
            /\ outcome' = "skipped"
       ELSE /\ pc' = "fetch"
            /\ outcome' = "running"
    /\ UNCHANGED <<table, clock, committed, succeeded>>

\* lines 46-83: validation, existence check, download
Fetch ==
    /\ pc = "fetch"
    /\ IF event.bucket = "" \/ event.name = <<>>
       THEN /\ Raise("ValueError")
            /\ UNCHANGED <<csv_data_string, calls>>
       ELSE IF ~BlobExists(event.bucket, event.name)
       THEN /\ Raise("FileNotFoundError")
            /\ calls' = Append(calls, "exists")
            /\ UNCHANGED csv_data_string
       ELSE \E ok \in BOOLEAN :
            /\ calls' = calls \o <<"exists", "download">>
            /\ IF ok
               THEN /\ csv_data_string' = BlobText(event.name)
                    /\ pc' = "transform"
                    /\ UNCHANGED outcome
               ELSE /\ Raise("FetchError")
                    /\ UNCHANGED csv_data_string
    /\ UNCHANGED <<event, df, current_utc_for_fill, final_df, table, clock,
                   invocations, raw, table0, clock0, committed, succeeded>>

\* lines 86-107: parse, then normalise event_timestamp
TransformTimestamp ==
    /\ pc = "transform"
    /\ LET parsed == ReadCsv(csv_data_string)
       IN IF parsed.err # "none"
          THEN /\ Raise(parsed.err)
               /\ UNCHANGED <<df, raw, current_utc_for_fill, calls>>
          ELSE IF ~HasColumn(parsed, "event_timestamp")
          THEN /\ Raise("KeyError")
               /\ df' = parsed
               /\ raw' = parsed
               /\ UNCHANGED <<current_utc_for_fill, calls>>
          ELSE /\ raw' = parsed
               /\ current_utc_for_fill' = NowUtc(clock)
               /\ calls' = Append(calls, "now_fill")
               /\ df' = WithColumn(parsed, "event_timestamp",
                          [i \in DOMAIN parsed.rows |->
                             ToUtc(FillNaT(ToDatetime(parsed.rows[i]["event_timestamp"]),
                                           NowUtc(clock)))])
               /\ pc' = "derive"
               /\ UNCHANGED outcome
    /\ UNCHANGED <<event, csv_data_string, final_df, table, clock, invocations,
                   table0, clock0, committed, succeeded>>

\* lines 111-134: country_code, value, is_high_value, processing_datetime, projection
TransformDerive ==
    /\ pc = "derive"
    /\ IF ~HasColumn(df, "country") \/ ~HasColumn(df, "value") \/ ~HasColumn(df, "user_id")
       THEN /\ Raise("KeyError")
            /\ calls' = IF HasColumn(df, "country") /\ HasColumn(df, "value")
                        THEN Append(calls, "now_processing") ELSE calls
            /\ UNCHANGED <<df, final_df>>
       ELSE LET d1 == WithColumn(df, "country_code",
                        [i \in DOMAIN df.rows |-> CountryCode(df.rows[i]["country"])])
                d2 == WithColumn(d1, "value",
                        [i \in DOMAIN df.rows |-> CoerceValue(d1.rows[i]["value"])])
                d3 == WithColumn(d2, "is_high_value",
                        [i \in DOMAIN df.rows |-> IsHighValue(d2.rows[i]["value"])])
                d4 == WithColumn(d3, "processing_datetime",
                        ProcessingColumn(d3, UtcNowNaive(clock)))
            IN /\ df' = d4
               /\ final_df' = Project(d4, FinalColumns)
               /\ calls' = Append(calls, "now_processing")
               /\ pc' = "load"
               /\ UNCHANGED outcome
    /\ UNCHANGED <<event, csv_data_string, current_utc_for_fill, table, clock,
                   invocations, raw, table0, clock0, committed, succeeded>>

\* lines 156-175: submit the load job and wait for it
Load ==
    /\ pc = "load"
    /\ calls' = Append(calls, "load")
    /\ \E ok \in BOOLEAN :
         IF ok
         THEN /\ table' = LoadAppend(table, final_df.rows)
              /\ committed' = Append(committed, event)
              /\ pc' = "count"
              /\ UNCHANGED outcome
         ELSE /\ Raise("LoadError")
              /\ UNCHANGED <<table, committed>>
    /\ UNCHANGED <<event, csv_data_string, df, current_utc_for_fill, final_df, clock,
                   invocations, raw, table0, clock0, succeeded>>

\* lines 177-191: read the table's row count for the log line
GetTable ==
    /\ pc = "count"
    /\ calls' = Append(calls, "get_table")
    /\ \E ok \in BOOLEAN :
         /\ pc' = "idle"
         /\ outcome' = IF ok THEN "success" ELSE "LoadError"
         /\ succeeded' = IF ok THEN Append(succeeded, event) ELSE succeeded
    /\ UNCHANGED <<event, csv_data_string, df, current_utc_for_fill, final_df, table,
                   clock, invocations, raw, table0, clock0, committed>>

\* the wall clock advances
Tick ==
    /\ clock < ToDatetime(StartInstant).t + MaxTicks
    /\ clock' = clock + 1
    /\ UNCHANGED <<pc, event, outcome, csv_data_string, df, current_utc_for_fill,
                   final_df, table, invocations, raw, table0, clock0, calls, committed,
                   succeeded>>

Next ==
    \/ \E ev \in Events : Receive(ev)
    \/ Fetch
    \/ TransformTimestamp
    \/ TransformDerive
    \/ Load
    \/ GetTable
    \/ Tick

Spec == Init /\ [][Next]_vars

\* -------------------------------------------------------------- properties
\* an invocation has been delivered (the variables describe it)
Delivered == outcome # "none"

\* an invocation has ended
Ended == pc = "idle" /\ Delivered

\* the last four characters are ".csv" in any mix of cases
IsCsvKey(name) ==
    /\ Len(name) >= 4
    /\ name[Len(name) - 3] = "."
    /\ name[Len(name) - 2] \in {"c", "C"}
    /\ name[Len(name) - 1] \in {"s", "S"}
    /\ name[Len(name)] \in {"v", "V"}

Count(s, x) == Cardinality({i \in DOMAIN s : s[i] = x})

\* C1: an event whose object key does not end in ".csv" (in any case) ends
\* successfully with no existence check, no download and no load, the table
\* unchanged; a key ending in ".CSV" or another case variant is not skipped.
C1_SkipNonCsv ==
    Delivered =>
      IF IsCsvKey(event.name)
      THEN /\ outcome # "skipped"
           /\ Ended /\ event.bucket # "" => Count(calls, "exists") = 1
      ELSE /\ pc = "idle"
           /\ outcome = "skipped"
           /\ calls = <<>>
           /\ table = table0

\* a text file is skipped after an upper-case ".CSV" object was loaded
C1_Witness ==
    /\ outcome = "skipped"
    /\ event.name = NameNotes
    /\ Len(table) > 0
    /\ \E i \in DOMAIN committed : committed[i].name = NameB

\* C2: an event with an empty bucket or an empty object key fails with
\* ValueError, without any fetch or load.
C2_EmptyFails ==
    (Ended /\ (event.bucket = "" \/ event.name = <<>>)) =>
      /\ outcome = "ValueError"
      /\ calls = <<>>

PreLoadErrors ==
    {"ValueError", "FileNotFoundError", "FetchError", "EmptyDataError", "ParserError",
     "KeyError"}

\* C3: a failure before the load (validation, missing object, download,
\* parse, missing column) ends the invocation in failure, runs no later
\* stage and submits no load: the table is as it was.
C3_FailBeforeLoad ==
    /\ (Ended /\ outcome \in PreLoadErrors) =>
         /\ Count(calls, "load") = 0
         /\ Count(calls, "get_table") = 0
         /\ table = table0
    /\ (Ended /\ IsCsvKey(event.name) /\ event.bucket = "") =>
         outcome = "ValueError" /\ calls = <<>>
    /\ (Ended /\ event.bucket = "b" /\ event.name = NameMissing) =>
         outcome = "FileNotFoundError" /\ calls = <<"exists">>
    /\ (Ended /\ outcome = "FetchError") => calls = <<"exists", "download">>
    /\ (Ended /\ event.bucket = "b" /\ event.name = NameEmptyFile) =>
         outcome \in {"FetchError", "EmptyDataError"} /\ calls = <<"exists", "download">>
    /\ (Ended /\ event.bucket = "b" /\ event.name = NameLongLine) =>
         outcome \in {"FetchError", "ParserError"} /\ calls = <<"exists", "download">>
    /\ (Ended /\ event.bucket = "b" /\ event.name \in {NameNoCountry, NameNoUser}) =>
         outcome \in {"FetchError", "KeyError"} /\ Count(calls, "load") = 0
    /\ pc \in {"load", "count"} =>
         \A c \in {"user_id", "event_timestamp", "country", "value"} : c \in Range(raw.columns)

\* the projection fails on a missing user_id column, after rows were loaded
\* by an earlier invocation
C3_Witness ==
    /\ Ended
    /\ outcome = "KeyError"
    /\ event.name = NameNoUser
    /\ Len(table) > 0

\* C4: an invocation that fails in the load step leaves no rows of its own
\* in the table.
C4_AllOrNothing ==
    (Ended /\ outcome = "LoadError") => table = table0

\* C5: the table only grows: every step keeps the rows the table had, in
\* place and unmodified, and an invocation submits at most one load.
C5_AppendOnly ==
    [][/\ Len(table') >= Len(table)
       /\ SubSeq(table', 1, Len(table)) = table
       /\ Count(calls', "load") <= 1]_vars

\* a load has added rows after the rows of an earlier load
C5_Witness ==
    /\ Len(table0) > 0
    /\ Len(table) > Len(table0)
    /\ Count(calls, "load") = 1

\* the user_id cells of the stored files
UserIds == { <<"u", d>> : d \in {"1", "2", "3", "4", "5"} }

\* number of data lines of the stored file whose user_id cell is u
FileCount(name, u) ==
    LET content == BlobText(name)
        k == IndexOf(content[1], "user_id")
    IN Cardinality({i \in 2..Len(content) : k <= Len(content[i]) /\ content[i][k] = u})

RECURSIVE LoadedCount(_, _)
LoadedCount(evs, u) ==
    IF Len(evs) = 0 THEN 0 ELSE FileCount(Head(evs).name, u) + LoadedCount(Tail(evs), u)

RECURSIVE LoadedLines(_)
LoadedLines(evs) ==
    IF Len(evs) = 0 THEN 0 ELSE Len(BlobText(Head(evs).name)) - 1 + LoadedLines(Tail(evs))

TableCount(u) == Cardinality({i \in DOMAIN table : table[i].user_id = u})

\* C6: nothing deduplicates: the table holds one copy of a file's rows for
\* every load of that file that completed, so an event delivered twice and
\* successful twice leaves its rows in the table twice.
C6_NoDedup ==
    /\ Len(table) = LoadedLines(committed)
    /\ \A u \in UserIds :
         /\ TableCount(u) = LoadedCount(committed, u)
         /\ TableCount(u) >= LoadedCount(succeeded, u)

\* the same event succeeded twice and its rows are in the table twice
C6_Witness ==
    /\ Len(succeeded) = 2
    /\ succeeded[1] = succeeded[2]
    /\ succeeded[1].name = NameA
    /\ TableCount(<<"u", "1">>) = 2
    /\ Len(table) = 8

\* the transformation has produced the table handed to the loader
Transformed == Len(final_df.columns) > 0

ExpectedColumns == {"user_id", "event_timestamp", "country", "value"}

\* the six columns, in order, in every row, one row per parsed row
SixColumns ==
    /\ final_df.columns = FinalColumns
    /\ Len(final_df.rows) = Len(raw.rows)
    /\ \A i \in DOMAIN final_df.rows : DOMAIN final_df.rows[i] = Range(FinalColumns)

\* no missing value in the five columns the transformation computes
ComputedColumnsFilled(r) ==
    /\ ~r.event_timestamp.na
    /\ r.country_code # NaN /\ r.country_code # <<>>
    /\ ~r.value.na
    /\ r.is_high_value \in BOOLEAN
    /\ ~r.processing_datetime.na

\* C7 as claimed: six columns in order and no missing value in any column
C7_NoMissing ==
    /\ (ExpectedColumns \subseteq Range(raw.columns) /\ pc # "derive") => Transformed
    /\ Transformed =>
         /\ SixColumns
         /\ \A i \in DOMAIN final_df.rows :
              /\ ComputedColumnsFilled(final_df.rows[i])
              /\ final_df.rows[i].user_id # NaN

\* C7: every row handed to the loader has exactly the six columns, in order,
\* and no missing value in event_timestamp, country_code, value,
\* is_high_value and processing_datetime; user_id is the parsed cell as it
\* is, missing exactly when the input cell is empty.
C7_SixColumns ==
    /\ (ExpectedColumns \subseteq Range(raw.columns) /\ pc # "derive") => Transformed
    /\ Transformed =>
         /\ SixColumns
         /\ \A i \in DOMAIN final_df.rows :
              /\ ComputedColumnsFilled(final_df.rows[i])
              /\ final_df.rows[i].user_id = raw.rows[i]["user_id"]

\* a line whose four cells are all empty has been transformed
C7_Witness ==
    /\ Transformed
    /\ \E i \in DOMAIN raw.rows :
         /\ \A c \in ExpectedColumns : raw.rows[i][c] = NaN
         /\ final_df.rows[i].user_id = NaN
         /\ ComputedColumnsFilled(final_df.rows[i])

Codes == { <<"M","Y">>, <<"S","G">>, <<"T","H">>, <<"I","D">>, <<"O","T">> }

\* equal up to the case of the letters (word is in upper case)
EqualsIgnoreCase(cell, word) ==
    /\ cell # NaN
    /\ Len(cell) = Len(word)
    /\ \A i \in DOMAIN word : cell[i] = word[i] \/ cell[i] = LowerChar(word[i])

\* the code the lookup table gives the country cell
ExpectedCode(cell) ==
    IF EqualsIgnoreCase(cell, MALAYSIA) THEN <<"M","Y">>
    ELSE IF EqualsIgnoreCase(cell, SINGAPORE) THEN <<"S","G">>
    ELSE IF EqualsIgnoreCase(cell, THAILAND) THEN <<"T","H">>
    ELSE IF EqualsIgnoreCase(cell, INDONESIA) THEN <<"I","D">>
    ELSE <<"O","T">>

\* C8 as claimed: the code is the lookup of the upper-cased country, OT when
\* there is no entry, never empty and never the raw input string
C8_NeverRaw ==
    Transformed =>
      \A i \in DOMAIN final_df.rows :
        /\ final_df.rows[i].country_code \in Codes
        /\ final_df.rows[i].country_code = ExpectedCode(raw.rows[i]["country"])
        /\ final_df.rows[i].country_code # raw.rows[i]["country"]

\* C8: country_code is one of MY, SG, TH, ID, OT: the lookup of the
\* upper-cased country, OT when there is no entry (empty and missing
\* included); it is never empty, and it is the raw input string only when
\* the raw input is "OT" itself.
C8_CountryCode ==
    Transformed =>
      \A i \in DOMAIN final_df.rows :
        /\ final_df.rows[i].country_code \in Codes
        /\ final_df.rows[i].country_code = ExpectedCode(raw.rows[i]["country"])
        /\ final_df.rows[i].country_code = raw.rows[i]["country"]
             => raw.rows[i]["country"] = <<"O","T">>

\* a lower-case country name got its code, and the raw "OT" and "MY" got OT
C8_Witness ==
    /\ Transformed
    /\ \E i \in DOMAIN raw.rows :
         /\ raw.rows[i]["country"] = <<"i","n","d","o","n","e","s","i","a">>
         /\ final_df.rows[i].country_code = <<"I","D">>
    /\ \E i \in DOMAIN raw.rows :
         /\ raw.rows[i]["country"] = <<"O","T">>
         /\ final_df.rows[i].country_code = <<"O","T">>
    /\ \E i \in DOMAIN raw.rows :
         /\ raw.rows[i]["country"] = <<"M","Y">>
         /\ final_df.rows[i].country_code = <<"O","T">>

\* C9: is_high_value is true exactly when the coerced value of the row is
\* strictly greater than 100; a value that does not parse, or is missing,
\* is coerced to 0 and gives false.
C9_HighValue ==
    Transformed =>
      \A i \in DOMAIN final_df.rows :
        LET r == final_df.rows[i]
            cell == raw.rows[i]["value"]
        IN /\ ~r.value.na
           /\ r.is_high_value <=> (r.value.num > 100 * r.value.den)
           /\ (cell = NaN \/ ~IsDecimal(cell)) =>
                (r.value.num = 0 /\ ~r.is_high_value)
           /\ cell = <<"1","0","0">> => (r.value.num = 100 * r.value.den /\ ~r.is_high_value)

\* rows with the values 150, "abc", empty and exactly 100 have been flagged
C9_Witness ==
    /\ Transformed
    /\ \E i \in DOMAIN raw.rows :
         raw.rows[i]["value"] = <<"1","0","0">> /\ ~final_df.rows[i].is_high_value
    /\ \E i \in DOMAIN raw.rows :
         raw.rows[i]["value"] = <<"1","5","0">> /\ final_df.rows[i].is_high_value
    /\ \E i \in DOMAIN raw.rows :
         raw.rows[i]["value"] = <<"a","b","c">> /\ ~final_df.rows[i].is_high_value
    /\ \E i \in DOMAIN raw.rows :
         raw.rows[i]["value"] = NaN /\ ~final_df.rows[i].is_high_value

\* the clock readings of the invocation, in the order they were taken
ClockReads == SelectSeq(calls, LAMBDA c : c \in {"now_fill", "now_processing"})

\* the event_timestamp of parsed row i was filled with the current time
Filled(i) == ToDatetime(raw.rows[i]["event_timestamp"]).na

\* C10 as claimed: processing_datetime is the only, first clock reading of
\* the transformation, the same in every row, and a filled event_timestamp is
\* never earlier than it
C10_ReadFirst ==
    Transformed =>
      /\ ClockReads = <<"now_processing">>
      /\ \A i, j \in DOMAIN final_df.rows :
           final_df.rows[i].processing_datetime = final_df.rows[j].processing_datetime
      /\ \A i \in DOMAIN final_df.rows :
           Filled(i) =>
             final_df.rows[i].event_timestamp.t >= final_df.rows[i].processing_datetime.t

\* C10: processing_datetime is read from the clock once per invocation, as
\* the last rule before the projection and after the reading that fills
\* event_timestamp; every row carries that one value; with a clock that
\* does not go backwards a filled event_timestamp is never later than
\* processing_datetime and never earlier than the start of the invocation.
C10_ReadLast ==
    Transformed =>
      /\ ClockReads = <<"now_fill", "now_processing">>
      /\ \A i, j \in DOMAIN final_df.rows :
           final_df.rows[i].processing_datetime = final_df.rows[j].processing_datetime
      /\ \A i \in DOMAIN final_df.rows :
           LET r == final_df.rows[i]
           IN /\ r.processing_datetime.tz = "naive"
              /\ clock0 <= r.processing_datetime.t /\ r.processing_datetime.t <= clock
              /\ r.event_timestamp.tz = "UTC"
              /\ Filled(i) =>
                   /\ r.event_timestamp = current_utc_for_fill
                   /\ clock0 <= r.event_timestamp.t
                   /\ r.event_timestamp.t <= r.processing_datetime.t

\* the clock advanced between the fill and the processing_datetime reading
C10_Witness ==
    /\ Transformed
    /\ Len(final_df.rows) > 1
    /\ \E i \in DOMAIN final_df.rows :
         /\ Filled(i)
         /\ final_df.rows[i].event_timestamp.t < final_df.rows[i].processing_datetime.t

====
